---- MODULE Spec2Model ----
(***************************************************************************)
(* Model of src/model/interceptors.ts (getInterceptOptions over the static *)
(* INTERCEPT_OPTIONS table) and of the CI workflow .github/workflows/ci.yml *)
(*                                                                         *)
(* JavaScript objects are modelled as functions from field names to        *)
(* values; an absent (undefined) property is a name outside the DOMAIN.    *)
(* Version strings are kept as strings and parsed by SemVerParse.          *)
(***************************************************************************)
EXTENDS Integers, Sequences, FiniteSets, TLC

VARIABLES
    table,      \* the module-level INTERCEPT_OPTIONS object
    args,       \* the caller's argument objects of the current call
    result,     \* outcome of the latest call of getInterceptOptions
    first,      \* history: the first call made, and whether later calls
                \* repeated its arguments (again) or used others
    event,      \* CI: the github event that triggered the workflow run
    jobs,       \* CI: per job, its status and the index of its next step
    effects     \* CI: the publishing steps that have run

vars == <<table, args, result, first, event, jobs, effects>>
icVars == <<table, args, result, first>>
ciVars == <<event, jobs, effects>>

\* Longest serverInterceptorArray explored.
MaxLen == 2

EmptyRec == [k \in {} |-> TRUE]

\* _.assign / object spread of two objects: own properties of b win.
Overlay(a, b) ==
    [k \in (DOMAIN a) \cup (DOMAIN b) |-> IF k \in DOMAIN b THEN b[k] ELSE a[k]]

BoundedSeq(S, n) == UNION {[1..k -> S] : k \in 0..n}

-----------------------------------------------------------------------------
(* Tag lists, lines 34-38 *)
BROWSER_TAGS == <<"browsers", "web page", "web app", "javascript">>
MOBILE_TAGS == <<"mobile", "phone", "app">>
ANDROID_TAGS == <<"samsung", "galaxy", "nokia", "lg", "android", "google", "motorola">>
IOS_TAGS == <<"apple", "ios", "iphone", "ipad">>
DOCKER_TAGS == <<"bridge", "services", "images">>
TERMINAL_TAGS == <<"terminal", "command line", "cli", "bash", "cmd", "shell", "php", "ruby", "node", "js">>

MANUAL_INTERCEPT_ID == "manual-setup"

\* The static table, lines 42-146.  A checkRequirements closure is held as
\* the name of the entry that defines it; CheckRequirements applies it.
INTERCEPT_OPTIONS ==
    ("docker-all" :> [name |-> "All Docker Containers",
                      description |-> "Intercept all local Docker traffic",
                      iconProps |-> [icon |-> "Docker"],
                      tags |-> DOCKER_TAGS])
 @@ ("docker-specific" :> [name |-> "Specific Docker Containers",
                      description |-> "Intercept all traffic from specific Docker containers",
                      iconProps |-> [icon |-> "Docker"],
                      tags |-> DOCKER_TAGS])
 @@ ("fresh-chrome" :> [name |-> "Fresh Chrome",
                      description |-> "Open a preconfigured fresh Chrome window",
                      iconProps |-> [icon |-> "Chrome"],
                      tags |-> BROWSER_TAGS])
 @@ ("fresh-firefox" :> [name |-> "Fresh Firefox",
                      description |-> "Open a preconfigured fresh Firefox window",
                      iconProps |-> [icon |-> "Firefox"],
                      tags |-> BROWSER_TAGS])
 @@ ("fresh-safari" :> [name |-> "Fresh Safari",
                      description |-> "Open a preconfigured fresh Safari window",
                      iconProps |-> [icon |-> "Safari"],
                      tags |-> BROWSER_TAGS])
 @@ ("fresh-edge" :> [name |-> "Fresh Edge",
                      description |-> "Open a preconfigured fresh Edge window",
                      iconProps |-> [icon |-> "Edge"],
                      tags |-> BROWSER_TAGS])
 @@ ("fresh-terminal" :> [name |-> "Fresh Terminal",
                      description |-> "Open a new terminal preconfigured to intercept all launched processes",
                      iconProps |-> [icon |-> "Terminal"],
                      tags |-> TERMINAL_TAGS])
 @@ ("existing-terminal" :> [name |-> "Existing Terminal",
                      description |-> "Intercept all launched processes from one of your existing terminal windows",
                      iconProps |-> [icon |-> "Terminal", color |-> "#dd44dd"],
                      uiConfig |-> "ExistingTerminalCustomUi",
                      tags |-> TERMINAL_TAGS])
 @@ ("electron" :> [name |-> "Electron Application",
                      description |-> "Launch an Electron application with all its traffic intercepted",
                      iconProps |-> [icon |-> "Electron"],
                      uiConfig |-> "ElectronCustomUi",
                      checkRequirements |-> "electron",
                      tags |-> <<"electron", "desktop", "postman">>])
 @@ ("android-device" :> [name |-> "An Android device",
                      description |-> "Intercept all HTTP traffic from an Android device on your network",
                      iconProps |-> [icon |-> "Android"],
                      checkRequirements |-> "android-device",
                      clientOnly |-> TRUE,
                      uiConfig |-> "AndroidCustomUi",
                      tags |-> MOBILE_TAGS \o ANDROID_TAGS])
 @@ ("ios-device" :> [name |-> "An iOS device",
                      description |-> "Intercept all HTTP traffic from an iOS device on your network",
                      iconProps |-> [icon |-> "iOS"],
                      tags |-> MOBILE_TAGS \o IOS_TAGS])
 @@ ("network-device" :> [name |-> "A device on your network",
                      description |-> "Intercept all HTTP traffic from another device on your network",
                      iconProps |-> [icon |-> "Network"],
                      tags |-> MOBILE_TAGS \o IOS_TAGS \o ANDROID_TAGS \o <<"lan", "arp", "wifi">>])
 @@ ("virtualbox-machine" :> [name |-> "A virtualbox VM",
                      description |-> "Intercept all traffic from a Virtualbox VM",
                      iconProps |-> [icon |-> "Desktop"],
                      tags |-> <<"virtual machine", "vagrant">>])
 @@ ("system-proxy" :> [name |-> "Everything",
                      description |-> "Intercept all HTTP traffic on this machine",
                      iconProps |-> [icon |-> "Desktop"],
                      tags |-> <<"local", "machine", "system", "me">>])
 @@ (MANUAL_INTERCEPT_ID :> [name |-> "Anything",
                      description |-> "Manually configure any source using the proxy settings and CA certificate",
                      iconProps |-> [icon |-> "Unknown"],
                      clientOnly |-> TRUE,
                      uiConfig |-> "ManualInterceptCustomUi",
                      tags |-> <<>>])

-----------------------------------------------------------------------------
(* semver, as used at lines 98 and 107 *)

\* The version strings the model draws from, with their parsed
\* <<major, minor, patch>>.
SemVerParse(s) ==
    CASE s = "0.1.17" -> <<0, 1, 17>>
      [] s = "0.1.18" -> <<0, 1, 18>>
      [] s = "0.2.0"  -> <<0, 2, 0>>
      [] s = "1.0.0"  -> <<1, 0, 0>>
      [] s = "1.0.1"  -> <<1, 0, 1>>
      [] s = "1.0.2"  -> <<1, 0, 2>>
      [] s = "2.0.0"  -> <<2, 0, 0>>

\* semver precedence of two parsed versions: a < b
SemVerLt(a, b) ==
    \/ a[1] < b[1]
    \/ a[1] = b[1] /\ a[2] < b[2]
    \/ a[1] = b[1] /\ a[2] = b[2] /\ a[3] < b[3]

\* Upper (exclusive) end of the caret range ^lo: the next version that
\* changes the left-most non-zero component.
CaretUpper(lo) ==
    IF lo[1] > 0 THEN <<lo[1] + 1, 0, 0>>
    ELSE IF lo[2] > 0 THEN <<0, lo[2] + 1, 0>>
    ELSE <<0, 0, lo[3] + 1>>

\* semver.satisfies(version, "^lo").  The argument is an object holding the
\* version under "v", or nothing when the version is undefined.  A falsy
\* version (undefined or '') satisfies no range.
SatisfiesCaret(versionArg, lo) ==
    /\ "v" \in DOMAIN versionArg
    /\ versionArg.v # ""
    /\ LET ver == SemVerParse(versionArg.v) IN
         /\ ~SemVerLt(ver, lo)
         /\ SemVerLt(ver, CaretUpper(lo))

\* '^1.0.1', line 98
ELECTRON_RANGE == <<1, 0, 1>>

\* DETAILED_CONFIG_RANGE of ../services/service-versions, line 5: a caret
\* range over the server version.
DETAILED_CONFIG_RANGE == <<0, 1, 18>>

-----------------------------------------------------------------------------
(* getInterceptOptions, lines 148-194 *)

\* featureFlags.includes(flag)
Includes(flags, flag) == \E i \in DOMAIN flags : flags[i] = flag

\* serverInterceptors[id]: the object, or undefined
Lookup(obj, key) ==
    IF key \in DOMAIN obj THEN [defined |-> TRUE, obj |-> obj[key]]
    ELSE [defined |-> FALSE]

\* x || {}
OrEmptyObject(x) == IF x.defined THEN x ELSE [defined |-> TRUE, obj |-> EmptyRec]

\* x.key: a TypeError when x is undefined, else the property (possibly
\* undefined, i.e. an empty holder).
PropertyOf(x, key) ==
    IF ~x.defined THEN [threw |-> TRUE]
    ELSE [threw |-> FALSE,
          val |-> IF key \in DOMAIN x.obj THEN [v |-> x.obj[key]] ELSE EmptyRec]

\* serverVersion || ''
OrEmptyString(x) == IF "v" \in DOMAIN x /\ x.v # "" THEN x ELSE [v |-> ""]

\* Variant of KeyBy in which the first entry inserted keeps each key.
KeyBy_FirstWins(arr) ==
    LET ids == {arr[i].id : i \in DOMAIN arr}
        firstAt(k) == CHOOSE i \in DOMAIN arr :
                     /\ arr[i].id = k
                     /\ \A j \in DOMAIN arr : arr[j].id = k => i <= j
    IN [k \in ids |-> arr[firstAt(k)]]

\* _.keyBy(serverInterceptorArray, 'id'): sequential insertion, so the
\* entry at the greatest index holds each key.
KeyBy(arr) ==
    LET ids == {arr[i].id : i \in DOMAIN arr}
        last(k) == CHOOSE i \in DOMAIN arr :
                     /\ arr[i].id = k
                     /\ \A j \in DOMAIN arr : arr[j].id = k => j <= i
    IN [k \in ids |-> arr[last(k)]]

\* Default parameter featureFlags = [], line 151
FeatureFlagsParam(a) ==
    IF "featureFlags" \in DOMAIN a THEN a.featureFlags ELSE <<>>

\* Optional parameter serverVersion, line 150
ServerVersionParam(a) ==
    IF "serverVersion" \in DOMAIN a THEN [v |-> a.serverVersion] ELSE EmptyRec

\* Variant of ElectronCheckRequirements with the range ^1.0.0.
ElectronCheckRequirements_Caret100(opts) ==
    SatisfiesCaret(opts.interceptorVersion, <<1, 0, 0>>)

\* checkRequirements of 'electron', lines 97-99
ElectronCheckRequirements(opts) ==
    SatisfiesCaret(opts.interceptorVersion, ELECTRON_RANGE)

\* Variant of AndroidCheckRequirements joining its conditions with ||.
AndroidCheckRequirements_Or(opts) ==
    \/ SatisfiesCaret(OrEmptyString(opts.serverVersion), DETAILED_CONFIG_RANGE)
    \/ Includes(opts.featureFlags, "android")

\* checkRequirements of 'android-device', lines 106-109
AndroidCheckRequirements(opts) ==
    /\ SatisfiesCaret(OrEmptyString(opts.serverVersion), DETAILED_CONFIG_RANGE)
    /\ Includes(opts.featureFlags, "android")

\* option.checkRequirements(opts)
CheckRequirements(option, opts) ==
    CASE option.checkRequirements = "electron" -> ElectronCheckRequirements(opts)
      [] option.checkRequirements = "android-device" -> AndroidCheckRequirements(opts)

\* Variant of InterceptorVersion without the || {} fallback.
InterceptorVersion_NoFallback(serverInterceptors, id) ==
    PropertyOf(Lookup(serverInterceptors, id), "version")

\* (serverInterceptors[id] || {}).version, line 162
InterceptorVersion(serverInterceptors, id) ==
    PropertyOf(OrEmptyObject(Lookup(serverInterceptors, id)), "version")

\* Variant of ServerInterceptorMissing that does not look at clientOnly.
ServerInterceptorMissing_IgnoresClientOnly(option, id, serverInterceptors) ==
    id \notin DOMAIN serverInterceptors

\* !option.clientOnly && !serverInterceptors[id], line 158
ServerInterceptorMissing(option, id, serverInterceptors) ==
    /\ "clientOnly" \notin DOMAIN option
    /\ id \notin DOMAIN serverInterceptors

\* option.checkRequirements && !option.checkRequirements({...}), lines
\* 161-165; evaluated only when the first disjunct of the condition is false
RequirementsMissing(option, interceptorVersion, featureFlags, serverVersion) ==
    /\ "checkRequirements" \in DOMAIN option
    /\ ~CheckRequirements(option, [interceptorVersion |-> interceptorVersion,
                                   featureFlags |-> featureFlags,
                                   serverVersion |-> serverVersion])

\* Variant of ClientOnlyBranch: the client-only branch is never taken.
ClientOnlyBranch_Never(option) == FALSE

\* else if (option.clientOnly), line 174
ClientOnlyBranch(option) == "clientOnly" \in DOMAIN option

\* Variant of AssignTarget: the descriptor itself receives the properties.
AssignTarget_Option == "option"

\* The first argument of the three _.assign calls (lines 168, 177, 188):
\* a fresh {} receives the properties.
AssignTarget == "fresh"

\* lines 168-173
UnsupportedResult(option, id) ==
    Overlay(Overlay(EmptyRec, option),
            [id |-> id, isSupported |-> FALSE, isActive |-> FALSE, isActivable |-> FALSE])

\* lines 177-182
ClientOnlyResult(option, id) ==
    Overlay(Overlay(EmptyRec, option),
            [id |-> id, isSupported |-> TRUE, isActive |-> FALSE, isActivable |-> TRUE])

\* Variant of ServerBackedResult overlaying the server's fields last.
ServerBackedResult_ServerLast(option, id, serverInterceptors) ==
    LET serverInterceptor == Lookup(serverInterceptors, id)
        source == IF serverInterceptor.defined THEN serverInterceptor.obj ELSE EmptyRec
    IN Overlay(Overlay(Overlay(EmptyRec, option), [id |-> id, isSupported |-> TRUE]),
               source)

\* lines 186-191; _.assign skips an undefined source
ServerBackedResult(option, id, serverInterceptors) ==
    LET serverInterceptor == Lookup(serverInterceptors, id)
        source == IF serverInterceptor.defined THEN serverInterceptor.obj ELSE EmptyRec
    IN Overlay(Overlay(Overlay(EmptyRec, option), source),
               [id |-> id, isSupported |-> TRUE])

\* The callback passed to _.mapValues, lines 155-193.  Yields the record it
\* returns, or the fault it raises.
ResolveOption(option, id, serverInterceptors, serverVersion, featureFlags) ==
    IF ServerInterceptorMissing(option, id, serverInterceptors)
    THEN [threw |-> FALSE, value |-> UnsupportedResult(option, id)]
    ELSE LET iv == InterceptorVersion(serverInterceptors, id) IN
         IF "checkRequirements" \in DOMAIN option /\ iv.threw
         THEN [threw |-> TRUE]
         ELSE IF RequirementsMissing(option, IF iv.threw THEN EmptyRec ELSE iv.val,
                                     featureFlags, serverVersion)
         THEN [threw |-> FALSE, value |-> UnsupportedResult(option, id)]
         ELSE IF ClientOnlyBranch(option)
         THEN [threw |-> FALSE, value |-> ClientOnlyResult(option, id)]
         ELSE [threw |-> FALSE, value |-> ServerBackedResult(option, id, serverInterceptors)]

\* Variant of MappedKeys that leaves out what the server does not back.
MappedKeys_OnlyAvailable(options, serverInterceptors) ==
    {id \in DOMAIN options :
        "clientOnly" \in DOMAIN options[id] \/ id \in DOMAIN serverInterceptors}

\* The keys _.mapValues(INTERCEPT_OPTIONS, ...) visits, line 155
MappedKeys(options, serverInterceptors) == DOMAIN options

\* getInterceptOptions(serverInterceptorArray, serverVersion, featureFlags)
\* evaluated against the current contents of the table.
getInterceptOptions(options, a) ==
    LET serverInterceptors == KeyBy(a.serverInterceptorArray)
        serverVersion == ServerVersionParam(a)
        featureFlags == FeatureFlagsParam(a)
        each == [id \in MappedKeys(options, serverInterceptors) |->
                    ResolveOption(options[id], id, serverInterceptors,
                                  serverVersion, featureFlags)]
    IN IF \E id \in DOMAIN each : each[id].threw
       THEN [status |-> "threw", passed |-> a]
       ELSE [status |-> "returned", passed |-> a,
             value |-> [id \in DOMAIN each |-> each[id].value]]

\* The table after a call: unchanged unless the records were assigned into
\* the descriptors themselves.
TableAfter(options, res) ==
    IF AssignTarget = "option" /\ res.status = "returned"
    THEN [id \in DOMAIN options |->
            IF id \in DOMAIN res.value THEN res.value[id] ELSE options[id]]
    ELSE options

-----------------------------------------------------------------------------
(* Inputs *)

\* Ids the server may report: table ids of each kind and one unknown id.
ServerIds == {"docker-all", "electron", "android-device", MANUAL_INTERCEPT_ID,
              "unknown-interceptor"}

ServerEntries ==
    [id : {"docker-all"}, version : {"1.0.0"},
     isActive : BOOLEAN, isActivable : {TRUE}]
  \cup
    [id : {"electron"}, version : {"1.0.0", "1.0.1", "1.0.2", "2.0.0"},
     isActive : {TRUE}, isActivable : {TRUE}]
  \cup
    [id : {"electron"}, version : {"1.0.0", "1.0.2"},
     isActive : {FALSE}, isActivable : {TRUE}]
  \cup
    { [id |-> MANUAL_INTERCEPT_ID, version |-> "1.0.0",
       isActive |-> TRUE, isActivable |-> FALSE],
      [id |-> "android-device", version |-> "1.0.0",
       isActive |-> TRUE, isActivable |-> TRUE],
      [id |-> "unknown-interceptor", version |-> "1.0.0",
       isActive |-> TRUE, isActivable |-> TRUE] }
  \cup
    [id : {"electron", "docker-all"}, isActive : {TRUE}, isActivable : {TRUE}]
  \cup
    [id : {"electron", "docker-all"}, version : {"1.0.2"},
     isActive : {TRUE}, isActivable : {TRUE},
     name : {"Reported by server"}, isSupported : {FALSE}]

ServerVersions == {"0.1.17", "0.1.18", "0.2.0"}
FeatureFlagLists == {<<>>, <<"other-flag">>, <<"other-flag", "android">>}

\* Argument lists over the given entries: serverVersion and featureFlags
\* may each be left out.
ArgsOver(entries, versions, flagLists) ==
    LET arrays == BoundedSeq(entries, MaxLen) IN
       {[serverInterceptorArray |-> a] : a \in arrays}
  \cup [serverInterceptorArray : arrays, serverVersion : versions]
  \cup [serverInterceptorArray : arrays, featureFlags : flagLists]
  \cup [serverInterceptorArray : arrays, serverVersion : versions,
        featureFlags : flagLists]

AllArgs == ArgsOver(ServerEntries, ServerVersions, FeatureFlagLists)

NoCall == [status |-> "none"]
NoEvent == [event_name |-> "none", ref |-> "none"]
NoJobs == [j \in {} |-> TRUE]

-----------------------------------------------------------------------------
(* Calls *)

\* One call of getInterceptOptions with the caller's current arguments.
Call ==
    /\ result.status = "none"
    /\ result' = getInterceptOptions(table, args)
    /\ table' = TableAfter(table, result')
    /\ first' = IF first.status = "none"
                THEN [status |-> "made", call |-> result',
                      again |-> FALSE, others |-> FALSE]
                ELSE IF args = first.call.passed
                THEN [first EXCEPT !.again = TRUE]
                ELSE [first EXCEPT !.others = TRUE]
    /\ UNCHANGED args
    /\ UNCHANGED ciVars

Init ==
    /\ table = INTERCEPT_OPTIONS
    /\ args \in AllArgs
    /\ result = NoCall
    /\ first = NoCall
    /\ event = NoEvent
    /\ jobs = NoJobs
    /\ effects = {}

Next == Call

Spec == Init /\ [][Next]_vars

-----------------------------------------------------------------------------
(* Repeated calls: a caller that calls, then calls again with arguments of
   its choice. *)

RepeatEntries ==
    { [id |-> "docker-all", version |-> "1.0.0", isActive |-> TRUE, isActivable |-> TRUE],
      [id |-> "docker-all", isActive |-> FALSE, isActivable |-> TRUE] }

RepeatArgs == ArgsOver(RepeatEntries, {"0.1.18"}, {<<"other-flag", "android">>})

\* The caller sets up the arguments of its next call.
Rearm ==
    /\ result.status # "none"
    /\ args' \in RepeatArgs
    /\ result' = NoCall
    /\ UNCHANGED <<table, first>>
    /\ UNCHANGED ciVars

InitRepeat ==
    /\ table = INTERCEPT_OPTIONS
    /\ args \in RepeatArgs
    /\ result = NoCall
    /\ first = NoCall
    /\ event = NoEvent
    /\ jobs = NoJobs
    /\ effects = {}

NextRepeat == Call \/ Rearm

SpecRepeat == InitRepeat /\ [][NextRepeat]_vars

-----------------------------------------------------------------------------
(* .github/workflows/ci.yml *)

MAIN_REF == "refs/heads/main"

\* on: [push, pull_request], line 2.  A pull_request run has the merge ref
\* of the pull request as github.ref.
Events ==
    [event_name : {"push"},
     ref : {MAIN_REF, "refs/heads/feature", "refs/tags/v1.0.0"}]
  \cup
    [event_name : {"pull_request"}, ref : {"refs/pull/1/merge"}]

JobNames == {"build", "publish-netlify", "publish-scaleway"}

\* steps: of each job, in order
Steps(j) ==
    CASE j = "build" ->
           <<"checkout", "setup-node", "install-npm", "npm-ci", "test-unit",
             "build-and-test", "build-and-test-production", "upload-artifact">>
      [] j = "publish-netlify" ->
           <<"checkout", "download-artifact", "deploy-to-netlify">>
      [] j = "publish-scaleway" ->
           <<"checkout", "download-artifact", "setup-buildx", "login-dockerhub",
             "docker-metadata", "publish-to-docker-hub", "redeploy-container",
             "flush-cdn-cache">>

\* needs: of each job, lines 56 and 87
Needs(j) == IF j = "build" THEN {} ELSE {"build"}

\* if: of publish-netlify, line 53
PublishNetlifyIf(e) == e.event_name = "push"

\* Variant of PublishScalewayIf without a condition.
PublishScalewayIf_Always(e) == TRUE

\* if: of publish-scaleway, line 84
PublishScalewayIf(e) == e.event_name # "pull_request"

\* if: of a job
JobIf(j, e) ==
    CASE j = "build" -> TRUE
      [] j = "publish-netlify" -> PublishNetlifyIf(e)
      [] j = "publish-scaleway" -> PublishScalewayIf(e)

\* if: of the CDN flush step, line 131
FlushCdnIf(e) == e.event_name = "push" /\ e.ref = MAIN_REF

\* if: of a step, lines 29, 36, 98, 131
StepIf(j, name, e) ==
    CASE j = "build" /\ name = "build-and-test" -> e.ref # MAIN_REF
      [] j = "build" /\ name = "build-and-test-production" ->
           e.event_name = "push" /\ e.ref = MAIN_REF
      [] j = "publish-scaleway" /\ name = "login-dockerhub" ->
           e.event_name # "pull_request"
      [] j = "publish-scaleway" /\ name = "flush-cdn-cache" -> FlushCdnIf(e)
      [] OTHER -> TRUE

\* The steps that publish: Netlify deploy, image push (push: is set at
\* line 119), container redeploy, CDN purge.
Publishes(j, name, e) ==
    \/ j = "publish-netlify" /\ name = "deploy-to-netlify"
    \/ j = "publish-scaleway" /\ name = "publish-to-docker-hub"
         /\ e.event_name # "pull_request"
    \/ j = "publish-scaleway" /\ name = "redeploy-container"
    \/ j = "publish-scaleway" /\ name = "flush-cdn-cache"

Finished(j) == jobs[j].status \in {"success", "failure", "skipped"}

\* A waiting job whose needs have all succeeded and whose if: holds starts.
JobStarts(j) ==
    /\ jobs[j].status = "waiting"
    /\ \A n \in Needs(j) : jobs[n].status = "success"
    /\ JobIf(j, event)
    /\ jobs' = [jobs EXCEPT ![j] = [status |-> "running", step |-> 1]]
    /\ UNCHANGED <<event, effects>>
    /\ UNCHANGED icVars

\* A waiting job is skipped when a needed job did not succeed or its if:
\* is false.
JobSkipped(j) ==
    /\ jobs[j].status = "waiting"
    /\ \A n \in Needs(j) : Finished(n)
    /\ \/ \E n \in Needs(j) : jobs[n].status # "success"
       \/ ~JobIf(j, event)
    /\ jobs' = [jobs EXCEPT ![j].status = "skipped"]
    /\ UNCHANGED <<event, effects>>
    /\ UNCHANGED icVars

\* The next step of a running job runs (and may fail) or, its if: being
\* false, is passed over.
StepRuns(j, ok) ==
    /\ jobs[j].status = "running"
    /\ jobs[j].step <= Len(Steps(j))
    /\ LET name == Steps(j)[jobs[j].step] IN
         /\ StepIf(j, name, event)
         /\ effects' = IF Publishes(j, name, event)
                       THEN effects \cup {name} ELSE effects
    /\ jobs' = IF ok THEN [jobs EXCEPT ![j].step = @ + 1]
               ELSE [jobs EXCEPT ![j].status = "failure"]
    /\ UNCHANGED event
    /\ UNCHANGED icVars

StepPassedOver(j) ==
    /\ jobs[j].status = "running"
    /\ jobs[j].step <= Len(Steps(j))
    /\ ~StepIf(j, Steps(j)[jobs[j].step], event)
    /\ jobs' = [jobs EXCEPT ![j].step = @ + 1]
    /\ UNCHANGED <<event, effects>>
    /\ UNCHANGED icVars

JobSucceeds(j) ==
    /\ jobs[j].status = "running"
    /\ jobs[j].step > Len(Steps(j))
    /\ jobs' = [jobs EXCEPT ![j].status = "success"]
    /\ UNCHANGED <<event, effects>>
    /\ UNCHANGED icVars

InitCI ==
    /\ table = INTERCEPT_OPTIONS
    /\ args = [serverInterceptorArray |-> <<>>]
    /\ result = NoCall
    /\ first = NoCall
    /\ event \in Events
    /\ jobs = [j \in JobNames |-> [status |-> "waiting", step |-> 1]]
    /\ effects = {}

NextCI ==
    \E j \in JobNames :
        \/ JobStarts(j)
        \/ JobSkipped(j)
        \/ \E ok \in BOOLEAN : StepRuns(j, ok)
        \/ StepPassedOver(j)
        \/ JobSucceeds(j)

SpecCI == InitCI /\ [][NextCI]_vars

-----------------------------------------------------------------------------
(* Properties of getInterceptOptions *)

Returned == result.status = "returned"

\* The arguments the latest call received
PassedArray == result.passed.serverInterceptorArray
PassedFlags ==
    IF "featureFlags" \in DOMAIN result.passed THEN result.passed.featureFlags ELSE <<>>
HasAndroidFlag == \E i \in DOMAIN PassedFlags : PassedFlags[i] = "android"
ServerVersionInRange ==
    /\ "serverVersion" \in DOMAIN result.passed
    /\ result.passed.serverVersion = "0.1.18"

Reported(id) == \E i \in DOMAIN PassedArray : PassedArray[i].id = id
ReportCount(id) == Cardinality({i \in DOMAIN PassedArray : PassedArray[i].id = id})
LastIndex(id) ==
    CHOOSE i \in DOMAIN PassedArray :
        /\ PassedArray[i].id = id
        /\ \A j \in (i + 1)..Len(PassedArray) : PassedArray[j].id # id
LastReport(id) == PassedArray[LastIndex(id)]

IsClientOnly(id) == "clientOnly" \in DOMAIN INTERCEPT_OPTIONS[id]
HasCheck(id) == "checkRequirements" \in DOMAIN INTERCEPT_OPTIONS[id]

\* The requirement of a descriptor, stated from the inputs: electron needs
\* the last reported version v with 1.0.1 <= v < 2.0.0, android-device needs
\* the server version in range and the 'android' flag.
ElectronVersionOk ==
    /\ Reported("electron")
    /\ "version" \in DOMAIN LastReport("electron")
    /\ LastReport("electron").version \in {"1.0.1", "1.0.2"}
RequirementHolds(id) ==
    CASE id = "electron" -> ElectronVersionOk
      [] id = "android-device" -> ServerVersionInRange /\ HasAndroidFlag
      [] OTHER -> TRUE

Forced(id, supported, active, activable) ==
    [id |-> id, isSupported |-> supported, isActive |-> active, isActivable |-> activable]

\* C1: the returned mapping has exactly the keys of the static table,
\* whatever the server reported.
C1_KeySetIsTableKeySet ==
    Returned => DOMAIN result.value = DOMAIN INTERCEPT_OPTIONS

C1_Witness ==
    /\ Returned
    /\ Reported("unknown-interceptor")
    /\ ReportCount("unknown-interceptor") > 1
    /\ ~Reported("docker-all")
    /\ "docker-all" \in DOMAIN result.value
    /\ "unknown-interceptor" \notin DOMAIN result.value

\* C2: an entry is unsupported exactly when it needs a server interceptor
\* that was not reported or its requirement check fails; an unsupported
\* entry is neither active nor activable.
C2_UnsupportedExactlyWhen ==
    Returned =>
        \A id \in DOMAIN INTERCEPT_OPTIONS :
            /\ id \in DOMAIN result.value
            /\ (result.value[id].isSupported = FALSE) <=>
                  \/ ~IsClientOnly(id) /\ ~Reported(id)
                  \/ HasCheck(id) /\ ~RequirementHolds(id)
            /\ result.value[id].isSupported = FALSE =>
                  /\ result.value[id].isActive = FALSE
                  /\ result.value[id].isActivable = FALSE

C2_Witness ==
    /\ Returned
    /\ PassedArray = <<[id |-> "electron", version |-> "1.0.0",
                        isActive |-> TRUE, isActivable |-> TRUE]>>
    /\ result.value["electron"] =
          Overlay(INTERCEPT_OPTIONS["electron"], Forced("electron", FALSE, FALSE, FALSE))
    /\ result.value["docker-all"].isSupported = FALSE
    /\ result.value[MANUAL_INTERCEPT_ID].isSupported = TRUE

\* C3: a client-only entry whose requirement holds is the descriptor plus
\* supported, activable, not active; nothing the server reports for that
\* id reaches the entry.
C3_ClientOnlyIgnoresServer ==
    Returned =>
        \A id \in DOMAIN INTERCEPT_OPTIONS :
            (IsClientOnly(id) /\ RequirementHolds(id)) =>
                /\ id \in DOMAIN result.value
                /\ result.value[id] =
                      Overlay(INTERCEPT_OPTIONS[id], Forced(id, TRUE, FALSE, TRUE))

C3_Witness ==
    /\ Returned
    /\ Reported(MANUAL_INTERCEPT_ID)
    /\ LastReport(MANUAL_INTERCEPT_ID).isActive = TRUE
    /\ LastReport(MANUAL_INTERCEPT_ID).isActivable = FALSE
    /\ result.value[MANUAL_INTERCEPT_ID].isActive = FALSE
    /\ result.value[MANUAL_INTERCEPT_ID].isActivable = TRUE
    /\ result.value["android-device"].isSupported = TRUE

\* C4: a server-backed entry that is reported and passes its requirement
\* is descriptor fields, overlaid by the reported fields, overlaid by
\* id = key and isSupported = TRUE.
C4_OverlayPrecedence ==
    Returned =>
        \A id \in DOMAIN INTERCEPT_OPTIONS :
            (~IsClientOnly(id) /\ Reported(id) /\ RequirementHolds(id)) =>
                LET d == INTERCEPT_OPTIONS[id]
                    s == LastReport(id)
                    r == result.value[id]
                IN /\ DOMAIN r = (DOMAIN d) \cup (DOMAIN s) \cup {"id", "isSupported"}
                   /\ r.id = id
                   /\ r.isSupported = TRUE
                   /\ \A k \in (DOMAIN s) \ {"id", "isSupported"} : r[k] = s[k]
                   /\ \A k \in (DOMAIN d) \ ((DOMAIN s) \cup {"id", "isSupported"}) :
                          r[k] = d[k]

C4_Witness ==
    /\ Returned
    /\ Reported("docker-all")
    /\ "name" \in DOMAIN LastReport("docker-all")
    /\ LastReport("docker-all").isSupported = FALSE
    /\ result.value["docker-all"].name = "Reported by server"
    /\ result.value["docker-all"].description = "Intercept all local Docker traffic"
    /\ result.value["docker-all"].isSupported = TRUE
    /\ result.value["docker-all"].isActive = TRUE
    /\ result.value["docker-all"].isActivable = TRUE
    /\ result.value["docker-all"].version = "1.0.2"

\* C5: 'electron' is supported exactly when the server reports it with a
\* version v, 1.0.1 <= v < 2.0.0; unsupported forces isActive and
\* isActivable to FALSE, supported passes the server's values through.
C5_ElectronVersionRange ==
    Returned =>
        LET r == result.value["electron"] IN
        /\ r.isSupported <=>
              /\ Reported("electron")
              /\ "version" \in DOMAIN LastReport("electron")
              /\ LET v == SemVerParse(LastReport("electron").version) IN
                    /\ v[1] = 1
                    /\ v[2] > 0 \/ v[3] >= 1
        /\ ~r.isSupported => r.isActive = FALSE /\ r.isActivable = FALSE
        /\ r.isSupported =>
              /\ r.isActive = LastReport("electron").isActive
              /\ r.isActivable = LastReport("electron").isActivable

C5_Witness ==
    /\ Returned
    /\ Reported("electron")
    /\ LastReport("electron") = [id |-> "electron", version |-> "1.0.0",
                                 isActive |-> TRUE, isActivable |-> TRUE]
    /\ result.value["electron"].isSupported = FALSE
    /\ result.value["electron"].isActive = FALSE
    /\ result.value["electron"].isActivable = FALSE

\* C6: 'android-device' is unsupported whenever the 'android' flag is not
\* passed, and whenever the server version is absent or out of range.
C6_AndroidNeedsFlagAndVersion ==
    Returned =>
        /\ ~HasAndroidFlag => result.value["android-device"].isSupported = FALSE
        /\ ~ServerVersionInRange => result.value["android-device"].isSupported = FALSE

C6_Witness ==
    /\ Returned
    /\ Reported("android-device")
    /\ LastReport("android-device").isActive = TRUE
    /\ "featureFlags" \notin DOMAIN result.passed
    /\ ServerVersionInRange
    /\ result.value["android-device"].isSupported = FALSE

\* C7: no call raises; missing data leaves the affected entries unsupported.
C7_NeverThrows ==
    /\ result.status # "threw"
    /\ Returned =>
          /\ (~Reported("electron") \/ "version" \notin DOMAIN LastReport("electron"))
                => result.value["electron"].isSupported = FALSE
          /\ "serverVersion" \notin DOMAIN result.passed
                => result.value["android-device"].isSupported = FALSE
          /\ "featureFlags" \notin DOMAIN result.passed
                => result.value["android-device"].isSupported = FALSE

C7_Witness ==
    /\ Returned
    /\ result.passed = [serverInterceptorArray |-> <<>>]
    /\ result.value["android-device"].isSupported = FALSE
    /\ result.value["electron"].isSupported = FALSE

\* C8: no call changes the static table or its arguments, and a call with
\* the arguments of the first call returns what the first call returned,
\* whatever was called in between.
C8_PureFunction ==
    /\ table = INTERCEPT_OPTIONS
    /\ result.status # "none" => args = result.passed
    /\ (first.status = "made" /\ Returned /\ result.passed = first.call.passed) =>
          /\ first.call.status = "returned"
          /\ result.value = first.call.value

C8_Witness ==
    /\ Returned
    /\ first.status = "made"
    /\ first.others
    /\ first.again
    /\ result.passed = first.call.passed
    /\ result.value = first.call.value
    /\ Len(PassedArray) > 0

\* C9: of several reports with the same id only the last counts: the
\* entry takes its overlaid fields and its checked version from the last
\* one, and the result is that of the call without the earlier duplicates.
LastReportsOnly ==
    SelectSeq([i \in DOMAIN PassedArray |-> [at |-> i, e |-> PassedArray[i]]],
              LAMBDA x : x.at = LastIndex(x.e.id))
C9_LastDuplicateWins ==
    Returned =>
        /\ \A id \in DOMAIN INTERCEPT_OPTIONS :
              (ReportCount(id) > 1 /\ result.value[id].isSupported /\ ~IsClientOnly(id)) =>
                  /\ \A k \in (DOMAIN LastReport(id)) \ {"id", "isSupported"} :
                        result.value[id][k] = LastReport(id)[k]
                  /\ "version" \in DOMAIN result.value[id]
                        <=> "version" \in DOMAIN LastReport(id)
        /\ ReportCount("electron") > 1 =>
              (result.value["electron"].isSupported <=> ElectronVersionOk)
        /\ result.value =
              getInterceptOptions(INTERCEPT_OPTIONS,
                  [result.passed EXCEPT !.serverInterceptorArray =
                      [i \in DOMAIN LastReportsOnly |-> LastReportsOnly[i].e]]).value

C9_Witness ==
    /\ Returned
    /\ Len(PassedArray) = 2
    /\ PassedArray[1] = [id |-> "electron", version |-> "1.0.2",
                         isActive |-> TRUE, isActivable |-> TRUE]
    /\ PassedArray[2] = [id |-> "electron", version |-> "1.0.0",
                         isActive |-> FALSE, isActivable |-> TRUE]
    /\ result.value["electron"].isSupported = FALSE

-----------------------------------------------------------------------------
(* Properties of the CI workflow *)

Published == effects # {}
IsPush == event.event_name = "push"

\* C10 as stated: publishing steps run only for pushes to the default
\* branch or of a tag, after a successful build.
C10_PublishOnlyMainOrTag ==
    Published =>
        /\ IsPush
        /\ event.ref = MAIN_REF \/ event.ref = "refs/tags/v1.0.0"
        /\ jobs["build"].status = "success"

\* C10, amended: publishing steps run only for push events (of any branch
\* or tag) and only after the build job succeeded; a pull_request run
\* publishes nothing; the CDN purge runs only for pushes to main.
C10_PublishOnlyOnPush ==
    /\ Published => IsPush /\ jobs["build"].status = "success"
    /\ event.event_name = "pull_request" => effects = {}
    /\ "flush-cdn-cache" \in effects => IsPush /\ event.ref = MAIN_REF

C10_Witness ==
    /\ event = [event_name |-> "push", ref |-> "refs/heads/feature"]
    /\ effects = {"deploy-to-netlify", "publish-to-docker-hub", "redeploy-container"}
    /\ jobs["publish-scaleway"].status = "success"
    /\ jobs["publish-netlify"].status = "success"

====
